---- MODULE Spec2Model ----
(***************************************************************************)
(* A model of the kyiv key-value store (src/src/lib.rs): the JSONStorage   *)
(* backend (an in-memory BTreeMap<String, String> and a backing file), its *)
(* load / mutate / flush protocol, and the Database handle that flushes    *)
(* the backend when it is dropped.                                         *)
(*                                                                         *)
(* A byte of the file is a one-character string, the file's content is a   *)
(* sequence of bytes, a Rust String is the sequence of its bytes, a        *)
(* BTreeMap is a set of <<key, value>> pairs with unique keys, and an      *)
(* Option<T> is the empty set (None) or a singleton (Some).                *)
(***************************************************************************)
EXTENDS Naturals, Sequences, FiniteSets

\* ------------------------------------------------------------- bounds

\* The longest value (a run of "x") a caller passes to set.
MaxValLen == 1

\* The longest run of trailing blanks in a file found at open.
MaxPad == 1

\* --------------------------------------------------------------- bytes

\* The bytes of the model, in ascending order of their (ASCII) value:
\* 0x20, 0x22, 0x2C, 0x3A, 0x5C, 0x61, 0x63, 0x78, 0x7B, 0x7D.
ByteOrder == <<" ", "\"", ",", ":", "\\", "a", "c", "x", "{", "}">>

Rank(c) == CHOOSE i \in 1..Len(ByteOrder) : ByteOrder[i] = c

\* Ord for String: lexicographic on the bytes (the order BTreeMap keeps).
StrLess(s, t) ==
    \E i \in 1..Len(t) :
        /\ \A j \in 1..(i - 1) : j <= Len(s) /\ s[j] = t[j]
        /\ (i > Len(s) \/ (s[i] # t[i] /\ Rank(s[i]) < Rank(t[i])))

\* ----------------------------------------------------------- BTreeMap

EmptyMap == {}

MapKeys(m) == {p[1] : p \in m}

\* BTreeMap::get: Some(value) or None.
MapGet(m, k) == {p[2] : p \in {q \in m : q[1] = k}}

\* An insert into a multimap: the entry is added, none is replaced.
MapInsertDup(m, k, v) == m \cup {<<k, v>>}

\* An insert that keeps the entry already there (entry().or_insert()).
MapInsertIfAbsent(m, k, v) == IF k \in MapKeys(m) THEN m ELSE m \cup {<<k, v>>}

\* BTreeMap::insert: the entry of k is replaced, the others stay.
MapInsert(m, k, v) == {p \in m : p[1] # k} \cup {<<k, v>>}

\* A remove that removes nothing.
MapRemoveNothing(m, k) == m

\* BTreeMap::remove: no entry of k is left; a no-op when k is absent.
MapRemove(m, k) == {p \in m : p[1] # k}

\* The first key of the map's iteration order.
FirstKey(m) == CHOOSE k \in MapKeys(m) : \A j \in MapKeys(m) : j = k \/ StrLess(k, j)

\* ------------------------------------------- serde_json::to_vec (compact)

\* A byte of a string as serde_json writes it: quote and backslash escaped.
EscapeByte(c) ==
    IF c = "\"" THEN <<"\\", "\"">>
    ELSE IF c = "\\" THEN <<"\\", "\\">>
    ELSE <<c>>

RECURSIVE EscapeStr(_)
EscapeStr(s) == IF s = <<>> THEN <<>> ELSE EscapeByte(Head(s)) \o EscapeStr(Tail(s))

Quote(s) == <<"\"">> \o EscapeStr(s) \o <<"\"">>

RECURSIVE SerEntries(_)
SerEntries(m) ==
    IF m = {} THEN <<>>
    ELSE LET k == FirstKey(m)
             v == CHOOSE w \in MapGet(m, k) : TRUE
             rest == {p \in m : p[1] # k}
         IN  Quote(k) \o <<":">> \o Quote(v)
                 \o (IF rest = {} THEN <<>> ELSE <<",">> \o SerEntries(rest))

\* serde_json::to_vec(&self.data): one object, keys in the map's order.
Serialize(m) == <<"{">> \o SerEntries(m) \o <<"}">>

\* ------------------------- serde_json::from_reader::<BTreeMap<String, String>>

\* Index of the first byte at or after i that is not whitespace (Len + 1 at EOF).
RECURSIVE SkipWs(_, _)
SkipWs(s, i) == IF i <= Len(s) /\ s[i] = " " THEN SkipWs(s, i + 1) ELSE i

Fail(i) == [ok |-> FALSE, val |-> <<>>, next |-> i]

\* The body of a string whose opening quote was read; i is the next byte.
\* Gives the string and the index after the closing quote.
RECURSIVE ParseStrBody(_, _, _)
ParseStrBody(s, i, acc) ==
    IF i > Len(s) THEN Fail(i)
    ELSE IF s[i] = "\"" THEN [ok |-> TRUE, val |-> acc, next |-> i + 1]
    ELSE IF s[i] = "\\" THEN
        IF i + 1 > Len(s) THEN Fail(i + 1)
        ELSE IF s[i + 1] \in {"\"", "\\"}
             THEN ParseStrBody(s, i + 2, Append(acc, s[i + 1]))
             ELSE Fail(i + 1)
    ELSE ParseStrBody(s, i + 1, Append(acc, s[i]))

\* A JSON string at the first non-blank byte at or after i.
ParseStr(s, i) ==
    LET j == SkipWs(s, i)
    IN  IF j <= Len(s) /\ s[j] = "\"" THEN ParseStrBody(s, j + 1, <<>>) ELSE Fail(j)

\* The entries of an object after its "{": first tells whether a key was read.
\* Gives the map and the index after the closing "}".
RECURSIVE ParseEntries(_, _, _, _)
ParseEntries(s, i, first, m) ==
    LET j == SkipWs(s, i)
    IN  IF j > Len(s) THEN [ok |-> FALSE, val |-> m, next |-> j]
        ELSE IF s[j] = "}" THEN [ok |-> TRUE, val |-> m, next |-> j + 1]
        ELSE IF ~first /\ s[j] # "," THEN [ok |-> FALSE, val |-> m, next |-> j]
        ELSE LET kpos == IF first THEN j ELSE SkipWs(s, j + 1)
                 key == ParseStr(s, kpos)
                 cpos == SkipWs(s, key.next)
                 value == ParseStr(s, cpos + 1)
             IN  IF ~key.ok THEN [ok |-> FALSE, val |-> m, next |-> key.next]
                 ELSE IF cpos > Len(s) \/ s[cpos] # ":"
                      THEN [ok |-> FALSE, val |-> m, next |-> cpos]
                 ELSE IF ~value.ok THEN [ok |-> FALSE, val |-> m, next |-> value.next]
                 ELSE ParseEntries(s, value.next, FALSE, MapInsert(m, key.val, value.val))

\* The whole content as one object of string values, nothing but whitespace
\* after it. ok = FALSE is any serde_json error (EOF, syntax, wrong type,
\* trailing characters).
Deserialize(s) ==
    LET j == SkipWs(s, 1)
    IN  IF j > Len(s) \/ s[j] # "{" THEN [ok |-> FALSE, val |-> EmptyMap, next |-> j]
        ELSE LET obj == ParseEntries(s, j + 1, TRUE, EmptyMap)
                 e == SkipWs(s, obj.next)
             IN  IF ~obj.ok THEN [ok |-> FALSE, val |-> EmptyMap, next |-> obj.next]
                 ELSE IF e <= Len(s) THEN [ok |-> FALSE, val |-> EmptyMap, next |-> e]
                 ELSE [ok |-> TRUE, val |-> obj.val, next |-> e]

\* ------------------------------------------------------ inputs and faults

Handles == {1, 2}

\* The handles a single-owner program opens on the file.
Solo == {1}

RECURSIVE Xs(_)
Xs(n) == IF n = 0 THEN <<>> ELSE <<"x">> \o Xs(n - 1)

RECURSIVE Blanks(_)
Blanks(n) == IF n = 0 THEN <<>> ELSE <<" ">> \o Blanks(n - 1)

\* The keys and values callers pass: a key that needs escaping and sorts
\* first, a plain key, the empty value and a value of MaxValLen bytes.
Keys == {<<"\"">>, <<"a">>}

Values == {Xs(0), Xs(MaxValLen)}

\* What may be at the path before the program first opens it: nothing, an
\* empty file, a well-formed object (with and without trailing blanks), and
\* damaged content: a string instead of an object, an object cut short, an
\* object followed by garbage.
OldMap == {<<(<<"a">>), Xs(MaxValLen)>>}

WellFormed ==
    {Serialize(m) \o Blanks(n) :
        m \in {OldMap}, n \in 0..MaxPad}

Damaged ==
    { Quote(<<"a">>),
      SubSeq(Serialize(OldMap), 1, Len(Serialize(OldMap)) - 1),
      Serialize(OldMap) \o <<"}", "}">> }

InitialFiles ==
    {[exists |-> FALSE, content |-> <<>>], [exists |-> TRUE, content |-> <<>>]}
        \cup {[exists |-> TRUE, content |-> c] : c \in WellFormed \cup Damaged}

\* Where an I/O call of from / flush may fail.
FromFaults == {"none", "open", "clone", "read", "clone2"}

FlushFaults == {"none", "seek", "write", "commit"}

\* The longest prefix a failed write_all leaves in the file.
MaxTorn == 1

\* ------------------------------------------------------------------ state

VARIABLES
    exists,     \* whether a file is at the path
    content,    \* the file's bytes
    st,         \* st[h]: "closed" or "open"
    data,       \* data[h]: the handle's BTreeMap (empty while closed)
    damaged,    \* damaged[h]: the file the handle was opened on did not parse,
                \* and no flush of the handle has succeeded since
    written,    \* written[h]: the keys set since the handle was opened
    snap,       \* the mapping and written keys of the handle dropped last and
                \* whether its flush succeeded, until a call other than the
                \* reopen follows
    last,       \* the call that returned last
    mark        \* a mapping and the file content a successful flush of it
                \* left, as an observer noted them (see Note)

vars == <<exists, content, st, data, damaged, written, snap, last, mark>>

\* The record of a call: its arguments, its result (res; out for get),
\* whether get or del found the key in the mapping (hit), the I/O call
\* that failed in it (fault), whether the file existed when it was called,
\* whether it is a flush or a drop that follows a successful flush of the
\* same handle with no call between them (again), and the number of times it
\* called the backend's flush (flushes; Flush and Drop set it).
Call(op, h, key, val, res, out, hit, fault, existed) ==
    [op |-> op, h |-> h, key |-> key, val |-> val, res |-> res, out |-> out,
     hit |-> hit, fault |-> fault, existed |-> existed,
     again |-> op \in {"flush", "drop"}
                /\ last.op = "flush" /\ last.res = "Ok" /\ last.h = h,
     flushes |-> 0]

NoSnap == [valid |-> FALSE, flushed |-> FALSE, data |-> EmptyMap, written |-> {}]

NoMark == [valid |-> FALSE, data |-> EmptyMap, content |-> <<>>]

Init ==
    /\ \E f \in InitialFiles : exists = f.exists /\ content = f.content
    /\ st = [h \in Handles |-> "closed"]
    /\ data = [h \in Handles |-> EmptyMap]
    /\ damaged = [h \in Handles |-> FALSE]
    /\ written = [h \in Handles |-> {}]
    /\ snap = NoSnap
    /\ last = [op |-> "none", h |-> 0, key |-> <<>>, val |-> <<>>, res |-> "Ok",
               out |-> {}, hit |-> FALSE, fault |-> "none", existed |-> FALSE,
               again |-> FALSE, flushes |-> 0]
    /\ mark = NoMark

\* ------------------------------------------------------------ operations

\* from without create(true): a missing file is an error, and none is made.
FromNoCreate(existed, bytes, f) ==
    LET d == Deserialize(bytes)
        err == ~existed \/ f \in {"open", "clone", "clone2"}
    IN  [res |-> IF err THEN "Err" ELSE "Ok", exists |-> existed, content |-> bytes,
         data |-> IF ~err /\ f # "read" /\ d.ok THEN d.val ELSE EmptyMap,
         parsed |-> ~err /\ d.ok]

\* from with serde_json::from_reader(..)?: a deserialization error is returned.
FromStrict(existed, bytes, f) ==
    LET c == IF existed THEN bytes ELSE <<>>
        d == Deserialize(c)
        err == f \in {"clone", "clone2"} \/ f = "read" \/ ~d.ok
    IN  IF f = "open"
        THEN [res |-> "Err", exists |-> existed, content |-> bytes,
              data |-> EmptyMap, parsed |-> FALSE]
        ELSE [res |-> IF err THEN "Err" ELSE "Ok", exists |-> TRUE, content |-> c,
              data |-> IF err THEN EmptyMap ELSE d.val, parsed |-> d.ok]

\* from with the errors of try_clone dropped instead of returned.
FromLenient(existed, bytes, f) ==
    IF f = "open"
    THEN [res |-> "Err", exists |-> existed, content |-> bytes,
          data |-> EmptyMap, parsed |-> FALSE]
    ELSE LET c == IF existed THEN bytes ELSE <<>>
             d == Deserialize(c)
         IN  [res |-> "Ok", exists |-> TRUE, content |-> c,
              data |-> IF f \notin {"read", "clone"} /\ d.ok THEN d.val ELSE EmptyMap,
              parsed |-> d.ok]

\* JSONStorage::from, with the file found (existed, bytes) and the I/O call
\* that fails (f): the result, the file it leaves, and the mapping loaded.
\* File::options().create(true) makes an empty file where none was; any error
\* of serde_json::from_reader, a failed read included, gives an empty map.
From(existed, bytes, f) ==
    IF f = "open"
    THEN [res |-> "Err", exists |-> existed, content |-> bytes,
          data |-> EmptyMap, parsed |-> FALSE]
    ELSE LET c == IF existed THEN bytes ELSE <<>>
             d == Deserialize(c)
             map == IF f # "read" /\ d.ok THEN d.val ELSE EmptyMap
             err == f \in {"clone", "clone2"}
         IN  [res |-> IF err THEN "Err" ELSE "Ok", exists |-> TRUE, content |-> c,
              data |-> IF err THEN EmptyMap ELSE map, parsed |-> d.ok]

\* write of bytes b at offset off of a file opened without O_TRUNC / O_APPEND:
\* the bytes at off+1 .. off+Len(b) are replaced, the others stay.
WriteAt(c, off, b) ==
    LET n == IF Len(c) > off + Len(b) THEN Len(c) ELSE off + Len(b)
    IN  [i \in 1..n |-> IF i > off /\ i <= off + Len(b) THEN b[i - off] ELSE c[i]]

\* write_all(b) with no seek before it, the file offset at the end of file.
StoreAtEnd(c, b) == WriteAt(c, Len(c), b)

\* A store that replaces the whole content (set_len(0) before the write).
StoreTruncating(c, b) == b

\* seek(SeekFrom::Start(0)) and write_all(b).
Store(c, b) == WriteAt(c, 0, b)

\* The numbers of bytes write_all may have written when flush ends with
\* fault f: a proper prefix (of at most MaxTorn bytes) when the write fails,
\* all of them otherwise.
Written(f, bytes) ==
    IF f = "write" THEN {n \in 0..MaxTorn : n < Len(bytes)} ELSE {Len(bytes)}

\* JSONStorage::flush on a file of content c with mapping m; f is the I/O call
\* that fails and n the number of bytes write_all wrote.
FlushFile(c, m, f, n) ==
    LET bytes == Serialize(m)
    IN  IF f = "seek" THEN [res |-> "Err", content |-> c]
        ELSE [res |-> IF f = "none" THEN "Ok" ELSE "Err",
              content |-> Store(c, SubSeq(bytes, 1, n))]

\* open::<JSONStorage>(path): Database { storage: JSONStorage::from(path)? }.
Open(h) ==
    /\ st[h] = "closed"
    /\ \E f \in FromFaults :
        LET r == From(exists, content, f)
        IN  /\ exists' = r.exists
            /\ content' = r.content
            /\ last' = Call("open", h, <<>>, <<>>, r.res, {}, FALSE, f, exists)
            /\ IF r.res = "Ok"
               THEN /\ st' = [st EXCEPT ![h] = "open"]
                    /\ data' = [data EXCEPT ![h] = r.data]
                    /\ damaged' = [damaged EXCEPT ![h] = ~r.parsed]
               ELSE UNCHANGED <<st, data, damaged>>
    /\ UNCHANGED <<written, snap, mark>>

\* JSONStorage::get through Deref.
Get(h, k) ==
    /\ st[h] = "open"
    /\ last' = Call("get", h, k, <<>>, "Ok", MapGet(data[h], k),
                    k \in MapKeys(data[h]), "none", TRUE)
    /\ snap' = NoSnap
    /\ UNCHANGED <<exists, content, st, data, damaged, written, mark>>

\* A set that writes the new mapping through to the file.
SetWriteThrough(h, k, v) ==
    /\ st[h] = "open"
    /\ data' = [data EXCEPT ![h] = MapInsert(data[h], k, v)]
    /\ content' = Store(content, Serialize(MapInsert(data[h], k, v)))
    /\ written' = [written EXCEPT ![h] = written[h] \cup {k}]
    /\ last' = Call("set", h, k, v, "Ok", {}, FALSE, "none", TRUE)
    /\ snap' = NoSnap
    /\ UNCHANGED <<exists, st, damaged, mark>>

\* JSONStorage::set through DerefMut.
Set(h, k, v) ==
    /\ st[h] = "open"
    /\ data' = [data EXCEPT ![h] = MapInsert(data[h], k, v)]
    /\ written' = [written EXCEPT ![h] = written[h] \cup {k}]
    /\ last' = Call("set", h, k, v, "Ok", {}, FALSE, "none", TRUE)
    /\ snap' = NoSnap
    /\ UNCHANGED <<exists, content, st, damaged, mark>>

\* A del that reports a missing key as an error.
DelStrict(h, k) ==
    /\ st[h] = "open"
    /\ data' = [data EXCEPT ![h] = MapRemove(data[h], k)]
    /\ last' = Call("del", h, k, <<>>, IF k \in MapKeys(data[h]) THEN "Ok" ELSE "Err",
                    {}, k \in MapKeys(data[h]), "none", TRUE)
    /\ snap' = NoSnap
    /\ UNCHANGED <<exists, content, st, damaged, written, mark>>

\* JSONStorage::del through DerefMut.
Del(h, k) ==
    /\ st[h] = "open"
    /\ data' = [data EXCEPT ![h] = MapRemove(data[h], k)]
    /\ last' = Call("del", h, k, <<>>, "Ok", {}, k \in MapKeys(data[h]), "none", TRUE)
    /\ snap' = NoSnap
    /\ UNCHANGED <<exists, content, st, damaged, written, mark>>

\* JSONStorage::flush called by the owner of the handle.
Flush(h) ==
    /\ st[h] = "open"
    /\ \E f \in FlushFaults : \E n \in Written(f, Serialize(data[h])) :
        LET r == FlushFile(content, data[h], f, n)
        IN  /\ content' = r.content
            /\ last' = [Call("flush", h, <<>>, <<>>, r.res, {}, FALSE, f, TRUE)
                            EXCEPT !.flushes = 1]
            /\ damaged' = [damaged EXCEPT ![h] = damaged[h] /\ r.res # "Ok"]
    /\ snap' = NoSnap
    /\ UNCHANGED <<exists, st, data, written, mark>>

\* A drop that ignores the result of the flush (let _ = self.storage.flush()).
DropQuiet(h) ==
    /\ st[h] = "open"
    /\ \E f \in FlushFaults : \E n \in Written(f, Serialize(data[h])) :
        LET r == FlushFile(content, data[h], f, n)
        IN  /\ content' = r.content
            /\ last' = [Call("drop", h, <<>>, <<>>, "Ok", {}, FALSE, f, TRUE)
                            EXCEPT !.flushes = 1]
    /\ st' = [st EXCEPT ![h] = "closed"]
    /\ snap' = [valid |-> TRUE, flushed |-> last'.fault = "none",
                data |-> data[h], written |-> written[h]]
    /\ data' = [data EXCEPT ![h] = EmptyMap]
    /\ damaged' = [damaged EXCEPT ![h] = FALSE]
    /\ written' = [written EXCEPT ![h] = {}]
    /\ UNCHANGED <<exists, mark>>

\* A drop that skips the flush when the owner has just flushed.
DropUnlessFlushed(h) ==
    /\ st[h] = "open"
    /\ \E f \in FlushFaults : \E n \in Written(f, Serialize(data[h])) :
        LET fresh == last.op = "flush" /\ last.res = "Ok" /\ last.h = h
            r == IF fresh THEN [res |-> "Ok", content |-> content]
                 ELSE FlushFile(content, data[h], f, n)
        IN  /\ fresh => f = "none"
            /\ content' = r.content
            /\ last' = [Call("drop", h, <<>>, <<>>,
                             IF r.res = "Ok" THEN "Ok" ELSE "Panic", {}, FALSE, f, TRUE)
                            EXCEPT !.flushes = IF fresh THEN 0 ELSE 1]
    /\ st' = [st EXCEPT ![h] = "closed"]
    /\ snap' = [valid |-> TRUE, flushed |-> last'.res = "Ok",
                data |-> data[h], written |-> written[h]]
    /\ data' = [data EXCEPT ![h] = EmptyMap]
    /\ damaged' = [damaged EXCEPT ![h] = FALSE]
    /\ written' = [written EXCEPT ![h] = {}]
    /\ UNCHANGED <<exists, mark>>

\* Drop for Database: self.storage.flush().expect("failed to flush"); the
\* handle is gone either way, a failed flush panics.
Drop(h) ==
    /\ st[h] = "open"
    /\ \E f \in FlushFaults : \E n \in Written(f, Serialize(data[h])) :
        LET r == FlushFile(content, data[h], f, n)
        IN  /\ content' = r.content
            /\ last' = [Call("drop", h, <<>>, <<>>,
                             IF r.res = "Ok" THEN "Ok" ELSE "Panic", {}, FALSE, f, TRUE)
                            EXCEPT !.flushes = 1]
    /\ st' = [st EXCEPT ![h] = "closed"]
    /\ snap' = [valid |-> TRUE, flushed |-> last'.res = "Ok",
                data |-> data[h], written |-> written[h]]
    /\ data' = [data EXCEPT ![h] = EmptyMap]
    /\ damaged' = [damaged EXCEPT ![h] = FALSE]
    /\ written' = [written EXCEPT ![h] = {}]
    /\ UNCHANGED <<exists, mark>>

\* One step of handle h.
Step(h) ==
    \/ Open(h)
    \/ \E k \in Keys : Get(h, k)
    \/ \E k \in Keys, v \in Values : Set(h, k, v)
    \/ \E k \in Keys : Del(h, k)
    \/ Flush(h)
    \/ Drop(h)

\* A program that keeps to the single-owner rule: one handle at a time.
Next == \E h \in Solo : Step(h)

Spec == Init /\ [][Next]_vars

\* A program that breaks the single-owner rule: two handles on the path,
\* their calls interleaved in any order. It starts where no file is, no I/O
\* call fails, and the callers use the one key "a".
Init2 == Init /\ ~exists

OneKey == <<"a">>

\* No I/O call failed in the step.
Calm == last'.fault = "none"

Next2 ==
    \E h \in Handles :
        \/ Open(h) /\ Calm
        \/ Get(h, OneKey)
        \/ \E v \in Values : Set(h, OneKey, v)
        \/ Del(h, OneKey)
        \/ Flush(h) /\ Calm
        \/ Drop(h) /\ Calm

Spec2 == Init2 /\ [][Next2]_vars

\* An observer notes, once, the mapping a flush has just written and the
\* content it left, to compare with what a later flush of the same mapping
\* leaves.
Note ==
    /\ last.op = "flush"
    /\ last.res = "Ok"
    /\ ~mark.valid
    /\ mark' = [valid |-> TRUE, data |-> data[last.h], content |-> content]
    /\ UNCHANGED <<exists, content, st, data, damaged, written, snap, last>>

\* The single-owner program with the observer; it starts where no file is,
\* no I/O call fails, and the caller sets the one value of MaxValLen bytes.
NextH ==
    \/ \E h \in Solo :
        \/ Open(h) /\ Calm
        \/ \E k \in Keys : Get(h, k)
        \/ \E k \in Keys : Set(h, k, Xs(MaxValLen))
        \/ \E k \in Keys : Del(h, k)
        \/ Flush(h) /\ Calm
        \/ Drop(h) /\ Calm
    \/ Note

SpecH == Init2 /\ [][NextH]_vars

\* ----------------------------------------------------------------- claims

\* What Storage::from would load from the file as it is now.
Reloaded == Deserialize(content)

\* C1: right after a flush that returned Ok, the whole content of the file
\* deserializes to the mapping the handle holds.
RoundTripAfterFlush ==
    (last.op = "flush" /\ last.res = "Ok")
        => (Reloaded.ok /\ Reloaded.val = data[last.h])

\* C2: when a flush returns Ok and the new serialization is shorter than the
\* file was, the file's content after it is exactly the new serialization.
NoStaleTrailingBytes ==
    [][(/\ last'.op = "flush"
        /\ last'.res = "Ok"
        /\ Len(Serialize(data[last'.h])) < Len(content))
            => content' = Serialize(data[last'.h])]_vars

\* C3: after a handle was dropped (its flush succeeding) and the path reopened
\* with no I/O failure, get gives for every key written in the dropped
\* handle's lifetime what it gave just before the drop.
PersistsAcrossTeardown ==
    (last.op = "open" /\ last.res = "Ok" /\ last.fault = "none"
            /\ snap.valid /\ snap.flushed)
        => \A k \in snap.written : MapGet(data[last.h], k) = MapGet(snap.data, k)

\* C4: the first successful flush of a handle that was opened on a file that
\* did not parse leaves a file whose whole content parses to the handle's
\* mapping.
SelfHealing ==
    [][(last'.op = "flush" /\ last'.res = "Ok" /\ damaged[last'.h])
            => (Deserialize(content').ok
                /\ Deserialize(content').val = data'[last'.h])]_vars

\* C5: when set(K, V) returns, get(K) on the handle gives V, and a get or a
\* flush that follows changes the result of get for no key.
ReadYourWrite ==
    [][/\ last'.op = "set"
            => MapGet(data'[last'.h], last'.key) = {last'.val}
       /\ last'.op \in {"get", "flush"}
            => \A k \in Keys : MapGet(data'[last'.h], k) = MapGet(data[last'.h], k)
       /\ last'.op = "get" => last'.out = MapGet(data[last'.h], last'.key)]_vars

\* A set has replaced another value of its key, and get gives the new one.
ReadYourWriteWitness ==
    /\ last.op = "set"
    /\ last.val # <<>>
    /\ last.key \in written[last.h]
    /\ MapKeys(data[last.h]) = Keys
    /\ MapGet(data[last.h], last.key) = {last.val}

\* C6: when del(K) returns on a handle on which K was set, get(K) gives None.
DeleteRemoves ==
    (last.op = "del" /\ last.key \in written[last.h])
        => MapGet(data[last.h], last.key) = {}

\* del removed the entry of a key that was set on the handle.
DeleteRemovesWitness ==
    /\ last.op = "del"
    /\ last.hit
    /\ last.key \in written[last.h]
    /\ MapGet(data[last.h], last.key) = {}

\* C7: del of a key that is not in the mapping returns Ok and leaves the
\* mapping as it was.
DelAbsentIsNoOp ==
    [][(last'.op = "del" /\ last'.key \notin MapKeys(data[last'.h]))
            => (last'.res = "Ok" /\ data' = data)]_vars

\* del found no entry of its key in a mapping that holds another entry.
DelAbsentWitness ==
    /\ last.op = "del"
    /\ ~last.hit
    /\ last.res = "Ok"
    /\ data[last.h] # EmptyMap

\* C8: open of a path with no file, no I/O call failing, returns Ok, has
\* made the (empty) file, and the handle's mapping is empty.
OpenCreates ==
    (last.op = "open" /\ ~last.existed)
        => /\ last.fault \in {"none", "read"} => last.res = "Ok"
           /\ last.res = "Ok" =>
                /\ exists
                /\ content = <<>>
                /\ st[last.h] = "open"
                /\ \A k \in Keys : MapGet(data[last.h], k) = {}
                /\ data[last.h] = EmptyMap

\* A handle was opened where no file was.
OpenCreatesWitness ==
    /\ last.op = "open"
    /\ ~last.existed
    /\ last.res = "Ok"
    /\ exists
    /\ st[last.h] = "open"

\* C9: open of a file whose content does not deserialize returns Ok unless
\* opening or cloning the file failed, and the handle's mapping is empty.
OpenTolerates ==
    (last.op = "open" /\ last.existed /\ ~Reloaded.ok)
        => /\ last.res = "Err" => last.fault \in {"open", "clone", "clone2"}
           /\ last.res = "Ok" => (st[last.h] = "open" /\ data[last.h] = EmptyMap)

\* A handle was opened on a file of malformed, non-empty content.
OpenToleratesWitness ==
    /\ last.op = "open"
    /\ last.existed
    /\ last.fault = "none"
    /\ content # <<>>
    /\ ~Reloaded.ok
    /\ last.res = "Ok"
    /\ damaged[last.h]
    /\ data[last.h] = EmptyMap

\* C10: a successful flush that follows a successful flush of the same handle,
\* with no call between them, leaves the file's content as it was.
FlushIdempotent ==
    [][(last'.op = "flush" /\ last'.again /\ last'.res = "Ok")
            => content' = content]_vars

\* Two flushes in a row succeeded on a handle that holds entries.
FlushIdempotentWitness ==
    /\ last.op = "flush"
    /\ last.again
    /\ last.res = "Ok"
    /\ data[last.h] # EmptyMap
    /\ Len(content) > Len(Serialize(data[last.h]))

\* C11: get, set and del leave the file as it is, and the file's content
\* changes in no step but a flush or the flush of a drop.
DeferredPersistence ==
    [][/\ last'.op \in {"get", "set", "del"}
            => (content' = content /\ exists' = exists)
       /\ content' # content => last'.op \in {"flush", "drop"}]_vars

\* set has returned and the file still holds the mapping as it was before.
DeferredPersistenceWitness ==
    /\ last.op = "set"
    /\ exists
    /\ Reloaded.ok
    /\ Reloaded.val # data[last.h]
    /\ MapGet(Reloaded.val, last.key) # {last.val}

\* C12: a drop panics exactly when its flush failed; it never completes
\* normally after an I/O error.
TeardownFailurePanics ==
    last.op = "drop"
        => /\ last.res \in {"Ok", "Panic"}
           /\ last.fault # "none" <=> last.res = "Panic"

\* The flush of a drop failed in write_all, and the drop panicked.
TeardownFailureWitness ==
    /\ last.op = "drop"
    /\ last.fault = "write"
    /\ last.res = "Panic"
    /\ st[last.h] = "closed"

\* C13: open gives a handle exactly when it returns Ok; when opening or
\* cloning the file fails it returns Err, no handle is made (so none is there
\* to be dropped and flushed), and no mapping or file content changes.
OpenErrorNoHandle ==
    [][last'.op = "open"
        => /\ last'.res = "Ok" <=> (st'[last'.h] = "open" /\ st[last'.h] = "closed")
           /\ last'.fault \in {"open", "clone", "clone2"}
                => /\ last'.res = "Err"
                   /\ st' = st
                   /\ st'[last'.h] = "closed"
                   /\ data' = data
                   /\ content' = content]_vars

\* The second try_clone failed: open returned Err and left no handle, though
\* the file had been made.
OpenErrorWitness ==
    /\ last.op = "open"
    /\ last.res = "Err"
    /\ last.fault = "clone2"
    /\ ~last.existed
    /\ exists
    /\ st[last.h] = "closed"

\* C14: a drop calls the backend's flush exactly once, also right after a
\* flush by the owner.
DropFlushesOnce == last.op = "drop" => last.flushes = 1

\* A handle was dropped right after its owner flushed it.
DropFlushesOnceWitness ==
    /\ last.op = "drop"
    /\ last.again
    /\ last.res = "Ok"
    /\ last.flushes = 1
    /\ snap.written # {}

Longer(a, b) == IF a > b THEN a ELSE b

LastWriterWins ==
    [][(/\ last.op = "flush" /\ last.res = "Ok"
        /\ last'.op = "flush" /\ last'.res = "Ok"
        /\ last'.h # last.h)
            => /\ content' = Serialize(data'[last'.h])
               /\ Deserialize(content').ok
               /\ Deserialize(content').val = data'[last'.h]]_vars

\* C16: two successful flushes of the same mapping, reached by different
\* calls, leave the same content in the file.
HistoryIndependent ==
    (mark.valid /\ last.op = "flush" /\ last.res = "Ok"
            /\ data[last.h] = mark.data)
        => content = mark.content

\* C18: a flush that fails returns its error and leaves the mapping as it
\* was, and when the next flush of the handle succeeds the file holds the
\* full current mapping: a reopen would load it.
FailedFlushThenPersist ==
    [][/\ (last'.op = "flush" /\ last'.res = "Err")
            => data' = data
       /\ (/\ last.op = "flush" /\ last.res = "Err"
           /\ last'.op = "flush" /\ last'.res = "Ok"
           /\ last'.h = last.h)
            => /\ data' = data
               /\ Deserialize(content').ok
               /\ Deserialize(content').val = data'[last'.h]]_vars

====
